---- MODULE Spec2Model ----
(***************************************************************************)
(* The IR graph of kestrel (packages-nextgen/kestrel_core, kestrel/ir/     *)
(* graph.py): graph construction with singleton de-duplication, variable   *)
(* versioning, reference dereferencing and union, the serializer, and the  *)
(* cache-aware segmenter.                                                  *)
(*                                                                         *)
(* Instruction objects live in one store `node` (index = node id): python  *)
(* graphs hold the objects by reference, so two graphs that hold the same  *)
(* node see each other's attribute updates.  A graph is the insertion-     *)
(* ordered sequence of its node ids plus its edge set (networkx.DiGraph).  *)
(***************************************************************************)
EXTENDS Integers, Sequences, FiniteSets, TLC

\* ---- bounds of the model -------------------------------------------------
MaxNodes == 4
MaxVersion == 2
MaxSequence == 1
MaxCached == 1

\* the object store has room for the objects an operation creates on top of
\* the MaxNodes nodes the graphs hold
Capacity == MaxNodes + 2

Names == {"x"}
Interfaces == {"A", "B"}
DataSourceNames == {"t1"}
GraphNames == {"g", "h"}
CACHE_INTERFACE_IDENTIFIER == "CACHE"

VARIABLES
    node,   \* the instruction objects: node[i] holds the attributes of node id i
    G,      \* G[a] = [nodes |-> Seq(id), edges |-> SUBSET (id \X id)] for a \in GraphNames
    pc,     \* the controller: "build" the graph, "segment" round by round, "done"
    target, \* the node the controller materializes (0: none yet)
    cache,  \* the ids in the controller's cache
    emitted, \* the subgraphs the last segmenter call returned
    segments, \* segments[ch]: what the segmenter answers for the target under cache ch
    artifacts, \* InMemoryCache.cache: artifacts[i] is the data frame stored for node id i
    cache_catalog, \* InMemoryCache.cache_catalog: the key of self.cache for an id
    query   \* the frame of one StixShifterInterface.query call: its locals and its position

vars == <<node, G, pc, target, cache, emitted, segments, artifacts, cache_catalog, query>>

\* ---- the STIX-shifter data source (kestrel_datasource_stixshifter) --------
\* Bounds of one query call.
RETRIEVAL_BATCH_SIZE == 2
MaxProfiles == 2
MaxQueries == 2
MaxBatches == 2

\* the entries a data source returns, and the batches of a results() call
Entries == {"a", "b"}
Batches == UNION {[1..k -> Entries] : k \in 0..RETRIEVAL_BATCH_SIZE}

\* The answers of transmission.status(): a successful answer carries "progress"
\* and "status"; an unsuccessful one may lack them (progress -1: no such key).
StatusUnset == [success |-> TRUE, progress |-> 0, status |-> "unset"]
StatusAnswers ==
    [success : {TRUE}, progress : {50, 100}, status : {"RUNNING", "COMPLETED"}]
    \cup [success : {FALSE}, progress : {-1, 50}, status : {"RUNNING", "ERROR"}]

\* the frame before the call
NotCalled ==
    [pc |-> "idle", profiles |-> 0, i |-> 0,
     ingestdir |-> "none", files |-> {}, bundles |-> <<>>,
     dsl |-> "unset", queries |-> 0, connector_results |-> <<>>,
     search_meta_result |-> "unset", status |-> StatusUnset,
     result_retrieval_offset |-> 0, result_batch |-> "unset",
     requested |-> <<>>, received |-> <<>>,
     ret |-> "none", err |-> "none"]

\* raise err out of query: nothing in query catches it or cleans up
raise(Q, err) == [Q EXCEPT !.pc = "raised", !.err = err]

\* the condition of the polling loop (interface.py 215-217)
running(status) == status.progress < 100 /\ status.status = "RUNNING"

stay(offset) == offset

\* result_retrieval_offset += RETRIEVAL_BATCH_SIZE
advance(offset) == offset + RETRIEVAL_BATCH_SIZE

\* has_remaining_results after a successful batch
has_remaining_results(new_entries) ==
    IF new_entries # <<>>
    THEN ~(Len(new_entries) < RETRIEVAL_BATCH_SIZE)
    ELSE FALSE

\* the start of the retrieval loop of one search
start_retrieval(Q) ==
    [Q EXCEPT !.pc = "results", !.result_retrieval_offset = 0, !.requested = <<>>]

\* query(uri, ...): the scheme test, then mkdtemp() and the empty bundle list
Query(scheme, profiles) ==
    /\ query.pc = "idle"
    /\ query' = IF scheme # "stixshifter"
                THEN raise(query, "DataSourceManagerInternalError")
                ELSE [query EXCEPT !.pc = "profile", !.profiles = profiles,
                                   !.ingestdir = "exists"]
    /\ UNCHANGED <<node, G, pc, target, cache, emitted, segments, artifacts, cache_catalog>>

\* the head of the loop over the profiles: check_module_availability and the
\* translation of the pattern, or the return after the last profile
Profile(available, dsl) ==
    /\ query.pc = "profile"
    /\ query' =
         IF query.i = query.profiles
         THEN [query EXCEPT !.pc = "returned", !.ret = "ReturnFromFile"]
         ELSE IF available # "ok"
         THEN raise(query, available)
         ELSE IF dsl = -1
         THEN raise([query EXCEPT !.dsl = "error"], "DataSourceError")
         ELSE [query EXCEPT !.pc = "search", !.dsl = "queries", !.queries = dsl,
                            !.connector_results = <<>>,
                            !.requested = <<>>, !.received = <<>>]
    /\ UNCHANGED <<node, G, pc, target, cache, emitted, segments, artifacts, cache_catalog>>

\* transmission.query(query) for the next query of dsl["queries"]
Search(success, is_async) ==
    /\ query.pc = "search"
    /\ query.queries > 0
    /\ query' =
         IF ~success
         THEN raise([query EXCEPT !.search_meta_result = "failure"], "DataSourceError")
         ELSE LET Q == [query EXCEPT !.search_meta_result = "success"]
              IN  IF is_async THEN [Q EXCEPT !.pc = "status"] ELSE start_retrieval(Q)
    /\ UNCHANGED <<node, G, pc, target, cache, emitted, segments, artifacts, cache_catalog>>

\* the first transmission.status(search_id) of an asynchronous search
Status(status) ==
    /\ query.pc = "status"
    /\ query' =
         LET Q == [query EXCEPT !.status = status]
         IN  IF ~status.success
             THEN raise(Q, "DataSourceError")
             ELSE IF running(status) THEN [Q EXCEPT !.pc = "poll"] ELSE start_retrieval(Q)
    /\ UNCHANGED <<node, G, pc, target, cache, emitted, segments, artifacts, cache_catalog>>

\* one more transmission.status(search_id) inside the polling loop: the answer
\* is only read by the loop condition
Poll(status) ==
    /\ query.pc = "poll"
    /\ query' =
         LET Q == [query EXCEPT !.status = status]
         IN  IF status.progress = -1
             THEN raise(Q, "KeyError")
             ELSE IF running(status) THEN Q ELSE start_retrieval(Q)
    /\ UNCHANGED <<node, G, pc, target, cache, emitted, segments, artifacts, cache_catalog>>

\* one transmission.results(search_id, result_retrieval_offset, RETRIEVAL_BATCH_SIZE)
Results(success, new_entries) ==
    /\ query.pc = "results"
    /\ Len(new_entries) = RETRIEVAL_BATCH_SIZE => Len(query.requested) < MaxBatches
    /\ query' =
         LET Q == [query EXCEPT !.requested = Append(@, query.result_retrieval_offset)]
         IN  IF ~success
             THEN raise([Q EXCEPT !.result_batch = "failure"], "DataSourceError")
             ELSE LET R == [Q EXCEPT
                              !.result_batch = "success",
                              !.received = Append(@, new_entries),
                              !.connector_results = @ \o new_entries,
                              !.result_retrieval_offset =
                                  IF new_entries # <<>> THEN advance(@) ELSE @]
                  IN  IF has_remaining_results(new_entries)
                      THEN R
                      ELSE [R EXCEPT !.pc = "search", !.queries = @ - 1]
    /\ UNCHANGED <<node, G, pc, target, cache, emitted, segments, artifacts, cache_catalog>>

\* after the last query: the results are translated and dumped into the
\* profile's ingest file, whose path joins the bundles
Dump ==
    /\ query.pc = "search"
    /\ query.queries = 0
    /\ query' = [query EXCEPT !.pc = "profile",
                              !.files = @ \cup {query.i},
                              !.bundles = Append(@, query.i),
                              !.i = @ + 1]
    /\ UNCHANGED <<node, G, pc, target, cache, emitted, segments, artifacts, cache_catalog>>

NextQuery ==
    \/ \E scheme \in {"stixshifter", "file"}, profiles \in 1..MaxProfiles :
          Query(scheme, profiles)
    \/ \E available \in {"ok", "DataSourceError", "CalledProcessError"},
          dsl \in -1..MaxQueries :
          Profile(available, dsl)
    \/ \E success \in BOOLEAN, is_async \in BOOLEAN : Search(success, is_async)
    \/ \E status \in StatusAnswers : Status(status)
    \/ \E status \in StatusAnswers : Poll(status)
    \/ \E success \in BOOLEAN, new_entries \in Batches : Results(success, new_entries)
    \/ Dump

\* ---- instruction model (kestrel/ir/instructions.py) ----------------------
DataSource(i, d) ==
    [kind |-> "DataSource", name |-> "", version |-> 0, sequence |-> 0,
     interface |-> i, datasource |-> d]

Variable(nm) ==
    [kind |-> "Variable", name |-> nm, version |-> 0, sequence |-> 0,
     interface |-> "", datasource |-> ""]

Reference(nm) ==
    [kind |-> "Reference", name |-> nm, version |-> 0, sequence |-> 0,
     interface |-> "", datasource |-> ""]

Return ==
    [kind |-> "Return", name |-> "", version |-> 0, sequence |-> 0,
     interface |-> "", datasource |-> ""]

Filter ==
    [kind |-> "Filter", name |-> "", version |-> 0, sequence |-> 0,
     interface |-> "", datasource |-> ""]

\* a slot of the object store that holds no live object
Free ==
    [kind |-> "Free", name |-> "", version |-> 0, sequence |-> 0,
     interface |-> "", datasource |-> ""]

TransformingInstruction == {"Variable", "Return", "Filter"}
SourceInstruction == {"DataSource"}
IntermediateInstruction == {"Reference"}

\* content equality: same kind and the same attributes, the id left out
has_same_content_as(x, y) ==
    /\ x.kind = y.kind
    /\ x.name = y.name
    /\ x.version = y.version
    /\ x.sequence = y.sequence
    /\ x.interface = y.interface
    /\ x.datasource = y.datasource

\* ---- graph store (networkx.DiGraph primitives) ---------------------------
EmptyGraph == [nodes |-> <<>>, edges |-> {}]

Range(s) == {s[i] : i \in DOMAIN s}

Nodes(gr) == Range(gr.nodes)

in_degree(gr, n) == Cardinality({e \in gr.edges : e[2] = n})

SetMax(S, default) == IF S = {} THEN default ELSE CHOOSE m \in S : \A k \in S : k <= m

\* a world: the object store and the graphs while one operation runs, the
\* value it returns and the exception it raised
World(nd, gs) == [node |-> nd, G |-> gs, ret |-> 0, err |-> "none"]

Raise(W, e) == [W EXCEPT !.err = e, !.ret = 0]

super_add_node(W, a, n) ==
    [W EXCEPT !.G[a].nodes = IF n \in Range(@) THEN @ ELSE Append(@, n), !.ret = n]

super_add_edge(W, a, u, v) ==
    [W EXCEPT !.G[a].edges = @ \cup {<<u, v>>}]

\* ---- symbol table --------------------------------------------------------
get_nodes_by_type(nd, gr, kinds) ==
    SelectSeq(gr.nodes, LAMBDA n : nd[n].kind \in kinds)

get_nodes_by_type_and_attributes(nd, gr, kind, nm) ==
    {n \in Nodes(gr) : nd[n].kind = kind /\ nd[n].name = nm}

\* the exception get_variable raises ("none": it returns)
get_variable_err(nd, gr, nm) ==
    LET xs == get_nodes_by_type_and_attributes(nd, gr, "Variable", nm)
    IN  IF xs = {} THEN "VariableNotFound"
        ELSE IF Cardinality({nd[x].version : x \in xs}) < Cardinality(xs)
             THEN "DuplicatedVariable"
             ELSE "none"

\* get_variable that returns the lowest version
get_variable_lowest(nd, gr, nm) ==
    LET xs == get_nodes_by_type_and_attributes(nd, gr, "Variable", nm)
    IN  CHOOSE x \in xs : \A y \in xs : nd[x].version <= nd[y].version

get_variable(nd, gr, nm) ==
    LET xs == get_nodes_by_type_and_attributes(nd, gr, "Variable", nm)
    IN  CHOOSE x \in xs : \A y \in xs : nd[y].version <= nd[x].version

VariableNames(nd, gr) == {nd[n].name : n \in {m \in Nodes(gr) : nd[m].kind = "Variable"}}

get_variables_err(nd, gr) ==
    IF \E nm \in VariableNames(nd, gr) : get_variable_err(nd, gr, nm) = "DuplicatedVariable"
    THEN "DuplicatedVariable" ELSE "none"

get_max_return_sequence(nd, gr) ==
    SetMax({nd[n].sequence : n \in {m \in Nodes(gr) : nd[m].kind = "Return"}}, -1)

\* ---- adding nodes --------------------------------------------------------
\* the singleton guard left out
_add_singleton_instruction_unguarded(W, a, n) == super_add_node(W, a, n)

_add_singleton_instruction(W, a, n) ==
    LET xs == {x \in Nodes(W.G[a]) :
                  has_same_content_as(W.node[x], W.node[n]) /\ in_degree(W.G[a], x) = 0}
    IN  IF xs # {}
        THEN IF Cardinality(xs) > 1
             THEN Raise(W, "DuplicatedSingletonInstruction")
             ELSE [W EXCEPT !.ret = CHOOSE x \in xs : TRUE]
        ELSE super_add_node(W, a, n)

\* _add_node that never dereferences
_add_node_no_deref(W, a, n, deref) ==
    IF n \in Nodes(W.G[a]) THEN [W EXCEPT !.ret = n]
    ELSE IF W.node[n].kind \in IntermediateInstruction \cup SourceInstruction
    THEN _add_singleton_instruction(W, a, n)
    ELSE super_add_node(W, a, n)

_add_node(W, a, n, deref) ==
    IF n \in Nodes(W.G[a]) THEN [W EXCEPT !.ret = n]
    ELSE IF W.node[n].kind \in IntermediateInstruction
    THEN IF W.node[n].kind = "Reference"
         THEN IF deref
              THEN CASE get_variable_err(W.node, W.G[a], W.node[n].name) = "VariableNotFound"
                          -> _add_singleton_instruction(W, a, n)
                     [] get_variable_err(W.node, W.G[a], W.node[n].name) = "DuplicatedVariable"
                          -> Raise(W, "DuplicatedVariable")
                     [] OTHER
                          -> [W EXCEPT !.ret = get_variable(W.node, W.G[a], W.node[n].name)]
              ELSE _add_singleton_instruction(W, a, n)
         ELSE Raise(W, "NotImplementedError")
    ELSE IF W.node[n].kind \in SourceInstruction
    THEN _add_singleton_instruction(W, a, n)
    ELSE super_add_node(W, a, n)

add_edge(W, a, u, v, deref) ==
    LET W1 == _add_node(W, a, u, deref)
        W2 == _add_node(W1, a, v, deref)
    IN  IF W1.err # "none" THEN W1
        ELSE IF W2.err # "none" THEN W2
        ELSE [super_add_edge(W2, a, W1.ret, W2.ret) EXCEPT !.ret = 0]

\* _add_node_with_dependent_node that copies the live version unincremented
_add_node_with_dependent_node_stale(W, a, n, dep) ==
    IF dep \notin Nodes(W.G[a]) THEN Raise(W, "InstructionNotFound")
    ELSE IF n \in Nodes(W.G[a]) THEN [W EXCEPT !.ret = n]
    ELSE LET nd1 == IF W.node[n].kind = "Variable"
                       /\ get_variable_err(W.node, W.G[a], W.node[n].name) = "none"
                    THEN [W.node EXCEPT ![n].version =
                             W.node[get_variable(W.node, W.G[a], W.node[n].name)].version]
                    ELSE W.node
             W1  == add_edge([W EXCEPT !.node = nd1], a, dep, n, FALSE)
         IN  IF W1.err # "none" THEN W1 ELSE [W1 EXCEPT !.ret = n]

\* _add_node_with_dependent_node without lines 584-585: the dependent node
\* is not looked up, add_edge inserts it
_add_node_with_dependent_node_unchecked(W, a, n, dep) ==
    IF n \in Nodes(W.G[a]) THEN [W EXCEPT !.ret = n]
    ELSE [add_edge(W, a, dep, n, FALSE) EXCEPT !.ret = n]

_add_node_with_dependent_node(W, a, n, dep) ==
    IF dep \notin Nodes(W.G[a]) THEN Raise(W, "InstructionNotFound")
    ELSE IF n \in Nodes(W.G[a]) THEN [W EXCEPT !.ret = n]
    ELSE IF W.node[n].kind = "Variable"
            /\ get_variable_err(W.node, W.G[a], W.node[n].name) = "DuplicatedVariable"
    THEN Raise(W, "DuplicatedVariable")
    ELSE LET nd1 == IF W.node[n].kind = "Variable"
                    THEN IF get_variable_err(W.node, W.G[a], W.node[n].name) = "VariableNotFound"
                         THEN [W.node EXCEPT ![n].version = 0]
                         ELSE [W.node EXCEPT ![n].version =
                                  W.node[get_variable(W.node, W.G[a], W.node[n].name)].version + 1]
                    ELSE W.node
             nd2 == IF W.node[n].kind = "Return"
                    THEN [nd1 EXCEPT ![n].sequence = get_max_return_sequence(nd1, W.G[a]) + 1]
                    ELSE nd1
             W1  == add_edge([W EXCEPT !.node = nd2], a, dep, n, FALSE)
         IN  IF W1.err # "none" THEN W1 ELSE [W1 EXCEPT !.ret = n]

\* dep = 0 stands for dependent_node = None
add_node(W, a, n, dep, deref) ==
    IF n \in Nodes(W.G[a]) THEN [W EXCEPT !.ret = n]
    ELSE IF W.node[n].kind \in TransformingInstruction
    THEN IF dep = 0 THEN Raise(W, "TypeCheckError")
         ELSE _add_node_with_dependent_node(W, a, n, dep)
    ELSE _add_node(W, a, n, deref)

\* a.add_reference(r, deref): return self.add_node(r, deref).  The second
\* positional parameter of add_node is dependent_node: Optional[Instruction],
\* so the bool deref is bound to it and add_node's own deref keeps its
\* default True.  typechecked: typeguard's checks are on (they are off under
\* python -O); with them the bool is rejected, without them dependent_node
\* is not looked at for a Reference
add_reference(W, a, r, deref, typechecked) ==
    IF typechecked THEN Raise(W, "TypeCheckError")
    ELSE add_node(W, a, r, 0, TRUE)

\* ---- union ---------------------------------------------------------------
\* for nv in ng.get_nodes_by_type(Variable): nv.version += original.version + 1
\* (one object at a time: an object that is both shifted and the receiver's
\* live variable is read after its own shift by the variables that follow it)
RECURSIVE ShiftVersions(_, _, _)
ShiftVersions(nd, vs, original_variables) ==
    IF vs = <<>> THEN nd
    ELSE LET nv == Head(vs)
             nd1 == IF nd[nv].name \in DOMAIN original_variables
                    THEN [nd EXCEPT ![nv].version =
                             @ + nd[original_variables[nd[nv].name]].version + 1]
                    ELSE nd
         IN  ShiftVersions(nd1, Tail(vs), original_variables)

\* for nr in ng.get_returns(): nr.sequence += return_max_sequence + 1
ShiftSequences(nd, gr, return_max_sequence) ==
    [i \in DOMAIN nd |->
        IF i \in Nodes(gr) /\ nd[i].kind = "Return"
        THEN [nd[i] EXCEPT !.sequence = @ + return_max_sequence + 1]
        ELSE nd[i]]

References(nd, gr) == {n \in Nodes(gr) : nd[n].kind = "Reference"}

\* the exception ng.get_references() raises ("none": it returns)
get_references_err(nd, gr) ==
    IF \E r1, r2 \in References(nd, gr) : r1 # r2 /\ nd[r1].name = nd[r2].name
    THEN "DuplicatedReference" ELSE "none"

\* the orders in which get_references() may list the references (it walks a
\* python set of names, whose order is not fixed)
get_references(nd, gr) ==
    LET rs == References(nd, gr)
    IN  {s \in [1..Cardinality(rs) -> rs] : \A i, j \in DOMAIN s : i # j => s[i] # s[j]}

\* {n: self._add_node(n) for n in ns}; stops at the first exception
RECURSIVE AddNodes(_, _, _, _)
AddNodes(W, m, a, ns) ==
    IF ns = <<>> \/ W.err # "none" THEN [W |-> W, o2n |-> m]
    ELSE LET W1 == _add_node(W, a, Head(ns), TRUE)
         IN  AddNodes(W1,
                      IF W1.err = "none" THEN [m EXCEPT ![Head(ns)] = W1.ret] ELSE m,
                      a, Tail(ns))

NoMapping == [i \in 1..Capacity |-> 0]

\* merge with the references added after the other nodes
merge_nonrefs_first(W, a, b, refs) ==
    LET nonrefs == SelectSeq(W.G[b].nodes, LAMBDA n : n \notin Range(refs))
        o2n_nonrefs == AddNodes(W, NoMapping, a, nonrefs)
        o2n_all == AddNodes(o2n_nonrefs.W, o2n_nonrefs.o2n, a, refs)
        m == o2n_all.o2n
    IN  IF o2n_all.W.err # "none" THEN o2n_all
        ELSE [W |-> [o2n_all.W EXCEPT
                        !.G[a].edges = @ \cup {<<m[e[1]], m[e[2]]>> : e \in W.G[b].edges},
                        !.ret = 0],
              o2n |-> m]

\* update() lines 381-393: the references first, then the other nodes, then
\* the edges through the old-to-new mapping
merge(W, a, b, refs) ==
    LET o2n_refs == AddNodes(W, NoMapping, a, refs)
        nonrefs == SelectSeq(W.G[b].nodes, LAMBDA n : n \notin Range(refs))
        o2n_all == AddNodes(o2n_refs.W, o2n_refs.o2n, a, nonrefs)
        m == o2n_all.o2n
    IN  IF o2n_all.W.err # "none" THEN o2n_all
        ELSE [W |-> [o2n_all.W EXCEPT
                        !.G[a].edges = @ \cup {<<m[e[1]], m[e[2]]>> : e \in W.G[b].edges},
                        !.ret = 0],
              o2n |-> m]

\* a.update(b), with b's references taken in the order refs; the result is
\* [W, o2n]: the world after the call and the old-to-new mapping it built
update(W, a, b, refs) ==
    IF get_variables_err(W.node, W.G[a]) # "none"
    THEN [W |-> Raise(W, "DuplicatedVariable"), o2n |-> NoMapping]
    ELSE
    LET original_variables ==
            [nm \in VariableNames(W.node, W.G[a]) |-> get_variable(W.node, W.G[a], nm)]
        nd1 == ShiftVersions(W.node, get_nodes_by_type(W.node, W.G[b], {"Variable"}),
                             original_variables)
        return_max_sequence == get_max_return_sequence(nd1, W.G[a])
        nd2 == ShiftSequences(nd1, W.G[b], return_max_sequence)
        W2 == [W EXCEPT !.node = nd2]
    IN  IF get_references_err(nd2, W2.G[b]) # "none"
        THEN [W |-> Raise(W2, "DuplicatedReference"), o2n |-> NoMapping]
        ELSE merge(W2, a, b, refs)

\* ---- serialization ------------------------------------------------------
\* str(u.id) and UUID(s)
UUIDString(i) == [uuid |-> i]

UUID(s) == s.uuid

\* Instruction.to_dict(): the node's record, its id as a string
instruction_to_dict(i, x) ==
    [id |-> UUIDString(i), kind |-> x.kind, name |-> x.name, version |-> x.version,
     sequence |-> x.sequence, interface |-> x.interface, datasource |-> x.datasource]

\* instruction_from_dict(): the instruction object of a record (its id is UUID(d.id))
instruction_from_dict(d) ==
    [kind |-> d.kind, name |-> d.name, version |-> d.version, sequence |-> d.sequence,
     interface |-> d.interface, datasource |-> d.datasource]

to_dict(nd, gr) ==
    [nodes |-> [k \in DOMAIN gr.nodes |-> instruction_to_dict(gr.nodes[k], nd[gr.nodes[k]])],
     links |-> {[source |-> UUIDString(e[1]), target |-> UUIDString(e[2])] : e \in gr.edges}]

\* for n in nodes: self._add_node(instruction_from_dict(n), False)
RECURSIVE LoadNodes(_, _)
LoadNodes(W, ns) ==
    IF ns = <<>> \/ W.err # "none" THEN W
    ELSE LoadNodes(_add_node(W, "g", UUID(Head(ns).id), FALSE), Tail(ns))

\* the exception get_node_by_id raises ("none": it returns the node of that id)
get_node_by_id_err(gr, ux) ==
    IF UUID(ux) \in Nodes(gr) THEN "none" ELSE "InstructionNotFound"

\* _from_dict() lines 612-619 with source and target exchanged
add_links_reversed(W, edges) ==
    IF \E e \in edges : \/ get_node_by_id_err(W.G["g"], e.source) # "none"
                        \/ get_node_by_id_err(W.G["g"], e.target) # "none"
    THEN Raise(W, "InvalidSeralizedGraph")
    ELSE [W EXCEPT !.G["g"].edges = {<<UUID(e.target), UUID(e.source)>> : e \in edges},
                   !.ret = 0]

\* _from_dict() lines 612-619: every link, its endpoints looked up by id
add_links(W, edges) ==
    IF \E e \in edges : \/ get_node_by_id_err(W.G["g"], e.source) # "none"
                        \/ get_node_by_id_err(W.G["g"], e.target) # "none"
    THEN Raise(W, "InvalidSeralizedGraph")
    ELSE [W EXCEPT !.G["g"].edges = {<<UUID(e.source), UUID(e.target)>> : e \in edges},
                   !.ret = 0]

\* IRGraph(serialized_graph): a new graph (graph "g" of a world of its own,
\* whose store holds the deserialized objects under their ids)
_from_dict(graph_in_dict) ==
    LET nodes == graph_in_dict.nodes
        edges == graph_in_dict.links
        objects == [i \in 1..Capacity |->
                      IF \E k \in DOMAIN nodes : UUID(nodes[k].id) = i
                      THEN instruction_from_dict(
                              nodes[CHOOSE k \in DOMAIN nodes : UUID(nodes[k].id) = i])
                      ELSE Free]
        W1 == LoadNodes(World(objects, [a \in GraphNames |-> EmptyGraph]), nodes)
    IN  IF W1.err # "none" THEN W1 ELSE add_links(W1, edges)

\* ---- segmenter ----------------------------------------------------------
RECURSIVE Reachable(_, _, _)
Reachable(edges, frontier, seen) ==
    LET nxt == {e[2] : e \in {d \in edges : d[1] \in frontier}} \ seen
    IN  IF nxt = {} THEN seen ELSE Reachable(edges, nxt, seen \cup nxt)

\* networkx.descendants / ancestors / predecessors / subgraph
descendants(gr, n) == Reachable(gr.edges, {n}, {}) \ {n}

ancestors(gr, n) == Reachable({<<e[2], e[1]>> : e \in gr.edges}, {n}, {}) \ {n}

predecessors(gr, n) == {e[1] : e \in {d \in gr.edges : d[2] = n}}

subgraph(gr, ns) ==
    [nodes |-> SelectSeq(gr.nodes, LAMBDA n : n \in ns),
     edges |-> {e \in gr.edges : e[1] \in ns /\ e[2] \in ns}]

\* IRGraph.copy(): g = IRGraph(); g.update(self).  The world after the call:
\* the copy is its graph "g"
copy(nd, gr) ==
    update(World(nd, [a \in GraphNames |-> IF a = "h" THEN gr ELSE EmptyGraph]), "g", "h",
           CHOOSE refs \in get_references(nd, gr) : TRUE).W

\* self.edges() and the nodes of degree 0, both in the order of self.nodes()
edges_in_order(gr) ==
    LET k == Len(gr.nodes)
    IN  SelectSeq([i \in 1..(k * k) |-> <<gr.nodes[((i - 1) \div k) + 1],
                                         gr.nodes[((i - 1) % k) + 1]>>],
                  LAMBDA e : e \in gr.edges)

degree(gr, n) == Cardinality({e \in gr.edges : e[1] = n \/ e[2] = n})

\* o2n = {n: n.deepcopy() for n in self.nodes()}: the copy of node n is the
\* new object n + Capacity, with the attributes of n
o2n_deepcopy(n) == n + Capacity

deepcopy_nodes(nd, gr) ==
    [i \in 1..(2 * Capacity) |->
        IF i <= Capacity THEN nd[i]
        ELSE IF (i - Capacity) \in Nodes(gr) THEN nd[i - Capacity] ELSE Free]

\* for u, v in edges: self.add_edge(o2n[u], o2n[v])
RECURSIVE add_copied_edges(_, _, _)
add_copied_edges(W, a, edges) ==
    IF edges = <<>> \/ W.err # "none" THEN W
    ELSE add_copied_edges(
             add_edge(W, a, o2n_deepcopy(Head(edges)[1]), o2n_deepcopy(Head(edges)[2]), FALSE),
             a, Tail(edges))

\* for node in nodes: self._add_node(node, deref)
RECURSIVE add_nodes_from(_, _, _, _)
add_nodes_from(W, a, nodes, deref) ==
    IF nodes = <<>> \/ W.err # "none" THEN W
    ELSE add_nodes_from(_add_node(W, a, Head(nodes), deref), a, Tail(nodes), deref)

\* IRGraph.deepcopy().  The world after the call: the copy is its graph "g",
\* the copied graph its graph "h"
deepcopy(nd, gr) ==
    LET W0 == World(deepcopy_nodes(nd, gr),
                    [a \in GraphNames |-> IF a = "h" THEN gr ELSE EmptyGraph])
        W1 == add_copied_edges(W0, "g", edges_in_order(gr))
        isolated == SelectSeq(gr.nodes, LAMBDA n : degree(gr, n) = 0)
    IN  add_nodes_from(W1, "g", [k \in DOMAIN isolated |-> o2n_deepcopy(isolated[k])], TRUE)

duplicate_dependent_subgraph_of_node(nd, gr, n) ==
    copy(nd, subgraph(gr, ancestors(gr, n) \cup {n}))

\* line 424 left out: the base graph keeps the in-edges of the cached nodes
keep_cached_in_edges(g, ch) == g

\* g.remove_edges_from(the in-edges of the cached nodes), line 424
remove_cached_in_edges(g, ch) == [g EXCEPT !.edges = {e \in @ : e[2] \notin ch}]

\* lines 423-427, W the world after line 423 with g its graph "g"
prune_and_duplicate(W, n, ch) ==
    IF W.err # "none" THEN W
    ELSE duplicate_dependent_subgraph_of_node(
             W.node, remove_cached_in_edges(W.G["g"], ch), n)

find_cached_dependent_subgraph_of_node(nd, gr, n, ch) ==
    prune_and_duplicate(duplicate_dependent_subgraph_of_node(nd, gr, n), n, ch)

\* IRGraphEvaluable._add_node: the exception the constructor raises on graph
\* gr ("none": no check of its own fails)
IRGraphEvaluable_err(nd, gr) ==
    IF \E n \in Nodes(gr) : nd[n].kind \in IntermediateInstruction
    THEN "InevaluableInstruction"
    ELSE IF \E m, n \in Nodes(gr) : /\ nd[m].kind \in SourceInstruction
                                     /\ nd[n].kind \in SourceInstruction
                                     /\ nd[m].interface # nd[n].interface
    THEN "MultiInterfacesInGraph"
    ELSE "none"

\* IRGraphEvaluable.__init__ after self.update(graph) has left world W: the
\* graph, its interface, and the exception of the constructor
IRGraphEvaluable_init(W, nd, gr) ==
    [nodes |-> Nodes(W.G["g"]),
     edges |-> W.G["g"].edges,
     interface |-> IF \E n \in Nodes(gr) : nd[n].kind \in SourceInstruction
                   THEN nd[CHOOSE n \in Nodes(gr) : nd[n].kind \in SourceInstruction].interface
                   ELSE CACHE_INTERFACE_IDENTIFIER,
     err |-> IF IRGraphEvaluable_err(nd, gr) # "none"
             THEN IRGraphEvaluable_err(nd, gr) ELSE W.err]

\* IRGraphEvaluable(graph)
IRGraphEvaluable(nd, gr) == IRGraphEvaluable_init(copy(nd, gr), nd, gr)

\* the buckets of find_dependent_subgraphs_of_node (lines 460-471): a2ns[ix]
\* for every interface ix and for CACHE_INTERFACE_IDENTIFIER
Buckets(nd, g, ch) ==
    LET impacted(s) ==
            LET ns == descendants(g, s)
                preds == UNION {predecessors(g, m) : m \in ns}
                cached_predecessors == {m \in preds : m \in ch}
            IN  ns \cup cached_predecessors \cup {s}
        bucket(ix) == UNION {impacted(s) : s \in {m \in Nodes(g) :
                            nd[m].kind \in SourceInstruction /\ nd[m].interface = ix}}
    IN  [ix \in Interfaces \cup {CACHE_INTERFACE_IDENTIFIER} |->
            IF ix = CACHE_INTERFACE_IDENTIFIER
            THEN Nodes(g) \ UNION {bucket(iy) : iy \in Interfaces}
            ELSE bucket(ix)]

\* lines 473-476 left out: every bucket is emitted whole
unshared_keep_shared(a2ns) == {a2ns[ix] : ix \in DOMAIN a2ns} \ {{}}

\* lines 473-479: the nodes in two buckets are shared; what is left of each
\* bucket, if anything, is the node set of an emitted subgraph
unshared_of(a2ns) ==
    LET shared_impacted_nodes ==
            UNION {a2ns[p[1]] \cap a2ns[p[2]] :
                    p \in {q \in (DOMAIN a2ns) \X (DOMAIN a2ns) : q[1] # q[2]}}
    IN  {a2ns[ix] \ shared_impacted_nodes : ix \in DOMAIN a2ns} \ {{}}

unshared_nodes(nd, g, ch) == unshared_of(Buckets(nd, g, ch))

\* line 480 and the return: the exception of the call ("none": it returns)
\* and the list of the subgraphs built
dep_graphs_of(evs) ==
    [err |-> IF \E e \in evs : e.err # "none"
             THEN (CHOOSE e \in evs : e.err # "none").err ELSE "none",
     dep_graphs |-> {[nodes |-> e.nodes, edges |-> e.edges, interface |-> e.interface] :
                        e \in evs}]

\* lines 459-482, W the world after line 457 with the base graph its graph "g"
segment(W, ch) ==
    IF W.err # "none" THEN [err |-> W.err, dep_graphs |-> {}]
    ELSE dep_graphs_of({IRGraphEvaluable(W.node, subgraph(W.G["g"], ns)) :
                           ns \in unshared_nodes(W.node, W.G["g"], ch)})

\* g.find_dependent_subgraphs_of_node(n, cache): [err, dep_graphs]
find_dependent_subgraphs_of_node(nd, gr, n, ch) ==
    segment(find_cached_dependent_subgraph_of_node(nd, gr, n, ch), ch)

\* get_sink_nodes of an emitted subgraph
get_sink_nodes(sg) == {n \in sg.nodes : \A e \in sg.edges : e[1] # n}

\* ---- evaluator (kestrel/cache/inmemory.py) --------------------------------
\* the data frame of a source, and of a transform applied to a data frame:
\* a deterministic backend, the frame recorded as the instructions applied
evaluate_source_instruction(n) == <<n>>

evaluate_transforming_instruction(n, df0) == Append(df0, n)

\* the state of an evaluate_graph call: the cache and its catalog, the
\* backend calls made, the frame just computed, the mapping to return, the
\* exception raised; fails: the instructions on which the backend raises
EvalState(store, catalog, fails) ==
    [cache |-> store, cache_catalog |-> catalog, fails |-> fails,
     calls |-> 0, df |-> <<>>, mapping |-> <<>>, err |-> "none"]

\* InMemoryCache.__setitem__: self.cache[instruction_id] = data
setitem(store, n, df) == (n :> df) @@ store

\* self[n] = df that replaces the cache by the one entry
store_alone(E, n, df) ==
    [E EXCEPT !.cache = (n :> df), !.cache_catalog = (n :> n)]

\* self[n] = df on the state of an evaluate_graph call
store_in_cache(E, n, df) ==
    [E EXCEPT !.cache = setitem(@, n, df), !.cache_catalog = setitem(@, n, n)]

\* the orders in which graph.predecessors(n) can start: first[n] is the
\* predecessor next() returns, 0 when n has none
Firsts(sg) ==
    {f \in [sg.nodes -> sg.nodes \cup {0}] :
        \A n \in sg.nodes : IF predecessors(sg, n) = {} THEN f[n] = 0
                             ELSE f[n] \in predecessors(sg, n)}

\* _evaluate_instruction_in_graph after the recursive call on the first
\* predecessor has left state E
after_predecessor(E, nd, n) ==
    IF E.err # "none" THEN E
    ELSE IF nd[n].kind = "Return" THEN E
    ELSE IF nd[n].kind = "Variable" THEN store_in_cache(E, n, E.df)
    ELSE IF n \in E.fails THEN [E EXCEPT !.err = "DataSourceError", !.calls = @ + 1]
    ELSE [E EXCEPT !.df = evaluate_transforming_instruction(n, @), !.calls = @ + 1]

RECURSIVE _evaluate_instruction_in_graph(_, _, _, _)
_evaluate_instruction_in_graph(E, nd, first, n) ==
    IF nd[n].kind \in SourceInstruction
    THEN IF n \in E.fails THEN [E EXCEPT !.err = "DataSourceError", !.calls = @ + 1]
         ELSE [E EXCEPT !.df = evaluate_source_instruction(n), !.calls = @ + 1]
    ELSE IF nd[n].kind \in TransformingInstruction
    THEN IF first[n] = 0 THEN [E EXCEPT !.err = "StopIteration"]
         ELSE after_predecessor(_evaluate_instruction_in_graph(E, nd, first, first[n]), nd, n)
    ELSE [E EXCEPT !.err = "NotImplementedError"]

\* the body of the loop of evaluate_graph, E the state after the evaluation
\* of instruction ins
store_result(E, ins) ==
    IF E.err # "none" THEN E
    ELSE [store_in_cache(E, ins, E.df) EXCEPT !.mapping = setitem(@, ins, E.df)]

RECURSIVE evaluate_instructions(_, _, _, _)
evaluate_instructions(E, nd, first, instructions_to_evaluate) ==
    IF instructions_to_evaluate = <<>> \/ E.err # "none" THEN E
    ELSE evaluate_instructions(
             store_result(_evaluate_instruction_in_graph(
                              E, nd, first, Head(instructions_to_evaluate)),
                          Head(instructions_to_evaluate)),
             nd, first, Tail(instructions_to_evaluate))

\* a set of node ids as the list in graph order
RECURSIVE InOrder(_)
InOrder(S) ==
    IF S = {} THEN <<>>
    ELSE LET m == CHOOSE x \in S : \A y \in S : x <= y
         IN  <<m>> \o InOrder(S \ {m})

\* InMemoryCache.evaluate_graph(graph, instructions_to_evaluate) on the
\* state E of the cache; an empty list stands for the sinks of the graph
evaluate_graph(nd, sg, E, instructions_to_evaluate, first) ==
    evaluate_instructions(E, nd, first,
        IF instructions_to_evaluate = <<>> THEN InOrder(get_sink_nodes(sg))
        ELSE instructions_to_evaluate)

\* a mapping without the key k
without(store, k) ==
    IF DOMAIN store \ {k} = {} THEN <<>> ELSE [j \in DOMAIN store \ {k} |-> store[j]]

\* __delitem__ that leaves the catalog alone
delitem_cache_only(E, k) ==
    IF k \notin DOMAIN E.cache THEN [E EXCEPT !.err = "KeyError"]
    ELSE [E EXCEPT !.cache = without(@, k)]

\* InMemoryCache.__delitem__: del self.cache[k]; del self.cache_catalog[k]
delitem(E, k) ==
    IF k \notin DOMAIN E.cache THEN [E EXCEPT !.err = "KeyError"]
    ELSE IF k \notin DOMAIN E.cache_catalog
    THEN [E EXCEPT !.cache = without(@, k), !.err = "KeyError"]
    ELSE [E EXCEPT !.cache = without(@, k), !.cache_catalog = without(@, k)]

\* InMemoryCache.__getitem__: self.cache[self.cache_catalog[k]], as
\* [err, df]
getitem(E, k) ==
    IF k \notin DOMAIN E.cache_catalog \/ E.cache_catalog[k] \notin DOMAIN E.cache
    THEN [err |-> "KeyError", df |-> <<>>]
    ELSE [err |-> "none", df |-> E.cache[E.cache_catalog[k]]]

\* ---- the session: operations on the two graphs --------------------------
Live(gs) == Nodes(gs["g"]) \cup Nodes(gs["h"])

\* the first free slot of a store
FreshIn(nd) == CHOOSE i \in DOMAIN nd : nd[i].kind = "Free" /\ \A j \in 1..(i - 1) : nd[j].kind # "Free"

Fresh == FreshIn(node)

\* a new object in the store
CreateIn(W, ins) == [W EXCEPT !.node[FreshIn(W.node)] = ins]

Create(ins) == CreateIn(World(node, G), ins)

\* the graphs hold fewer than k nodes
Room(k) == Cardinality(Live(G)) < k

\* Node ids are opaque (uuid4): the store is kept in one numbering, g's nodes
\* in insertion order and then the nodes h alone holds, so that two states
\* that differ only in the ids are one state.  Objects no graph holds are
\* collected.
Canonical(W) ==
    LET ord == W.G["g"].nodes \o
               SelectSeq(W.G["h"].nodes, LAMBDA n : n \notin Nodes(W.G["g"]))
        pos(n) == IF n \in Range(ord) THEN CHOOSE k \in DOMAIN ord : ord[k] = n ELSE 0
    IN  [node |-> [j \in 1..Capacity |-> IF j <= Len(ord) THEN W.node[ord[j]] ELSE Free],
         G |-> [a \in GraphNames |->
                  [nodes |-> [k \in DOMAIN W.G[a].nodes |-> pos(W.G[a].nodes[k])],
                   edges |-> {<<pos(e[1]), pos(e[2])>> : e \in W.G[a].edges}]]]

\* the state an operation leaves
Commit(W) ==
    /\ \A i \in Live(W.G) : W.node[i].version <= MaxVersion /\ W.node[i].sequence <= MaxSequence
    /\ node' = Canonical(W).node
    /\ G' = Canonical(W).G
    /\ UNCHANGED <<pc, target, cache, emitted, segments, artifacts, cache_catalog, query>>

Init ==
    /\ node = [i \in 1..Capacity |-> Free]
    /\ G = [a \in GraphNames |-> EmptyGraph]
    /\ pc = "build"
    /\ target = 0
    /\ cache = {}
    /\ emitted = {}
    /\ segments = <<>>
    /\ artifacts = <<>>
    /\ cache_catalog = <<>>
    /\ query = NotCalled

\* a.add_datasource(DataSource(i, d))
AddDataSource(a, i, d) ==
    /\ Commit(add_node(Create(DataSource(i, d)), a, Fresh, 0, TRUE))

\* a.add_node(Reference(nm)), dereferencing enabled
AddReference(a, nm) ==
    /\ Commit(add_node(Create(Reference(nm)), a, Fresh, 0, TRUE))

\* a.add_variable(nm, dep)
AddVariable(a, nm, dep) ==
    /\ Commit(add_node(Create(Variable(nm)), a, Fresh, dep, TRUE))

\* a.add_return(dep)
AddReturn(a, dep) ==
    /\ Commit(add_node(Create(Return), a, Fresh, dep, TRUE))

\* a.add_node(Filter(...), dep)
AddFilter(a, dep) ==
    /\ Commit(add_node(Create(Filter), a, Fresh, dep, TRUE))

\* a.add_node(n, dep) for a node n that a already holds
AddExisting(a, n) ==
    /\ n \in Nodes(G[a])
    /\ Commit(add_node(World(node, G), a, n, n, TRUE))

\* union(a, b) = compose(a, b): a.update(b)
Union(a, b) ==
    /\ a # b
    /\ \E refs \in get_references(node, G[b]) :
          LET r == update(World(node, G), a, b, refs)
          IN  Commit(r.W)

\* h = IRGraph(): the next fragment
NewFragment ==
    /\ G["h"] # EmptyGraph
    /\ Commit(World(node, [G EXCEPT !["h"] = EmptyGraph]))

Next ==
    \/ \E a \in GraphNames, i \in Interfaces, d \in DataSourceNames :
          Room(MaxNodes) /\ AddDataSource(a, i, d)
    \/ \E a \in GraphNames, nm \in Names : Room(MaxNodes) /\ AddReference(a, nm)
    \/ \E a \in GraphNames, nm \in Names, dep \in Live(G) :
          Room(MaxNodes) /\ AddVariable(a, nm, dep)
    \/ \E a \in GraphNames, dep \in Live(G) : Room(MaxNodes) /\ AddReturn(a, dep)
    \/ \E a \in GraphNames, n \in Live(G) : AddExisting(a, n)
    \/ \E a, b \in GraphNames : Union(a, b)
    \/ NewFragment

\* graphs built by adds and unions
Spec == Init /\ [][Next]_vars

NextAdd ==
    \/ \E a \in GraphNames, i \in Interfaces, d \in DataSourceNames :
          Room(MaxNodes) /\ AddDataSource(a, i, d)
    \/ \E a \in GraphNames, nm \in Names : Room(MaxNodes) /\ AddReference(a, nm)
    \/ \E a \in GraphNames, nm \in Names, dep \in Live(G) :
          Room(MaxNodes) /\ AddVariable(a, nm, dep)
    \/ \E a \in GraphNames, dep \in Live(G) : Room(MaxNodes) /\ AddReturn(a, dep)
    \/ \E a \in GraphNames, dep \in Live(G) : Room(MaxNodes) /\ AddFilter(a, dep)
    \/ \E a \in GraphNames, n \in Live(G) : AddExisting(a, n)

\* graphs built by adds alone
SpecAdd == Init /\ [][NextAdd]_vars

NextSingleton ==
    \/ \E a \in GraphNames, i \in Interfaces, d \in DataSourceNames :
          Room(MaxNodes + 1) /\ AddDataSource(a, i, d)
    \/ \E a \in GraphNames, dep \in Live(G) : Room(MaxNodes + 1) /\ AddFilter(a, dep)
    \/ Union("g", "h")
    \/ NewFragment

\* data sources with one downstream transform each, merged fragment by fragment
SpecSingleton == Init /\ [][NextSingleton]_vars

\* g.add_edge(u, v): a second input for a transform that g already holds
AddEdge(a, u, v) ==
    /\ u \in Nodes(G[a]) /\ v \in Nodes(G[a]) /\ u # v
    /\ node[v].kind = "Filter"
    /\ <<u, v>> \notin G[a].edges
    /\ u \notin descendants(G[a], v)
    /\ Commit(add_edge(World(node, G), a, u, v, TRUE))

\* the controller picks the node n of g to materialize and starts from an
\* empty cache.  The graph does not change while n is materialized, so the
\* answer of g.find_dependent_subgraphs_of_node(n, ch) is tabulated here for
\* every cache ch
StartSegment(n) ==
    /\ pc = "build"
    /\ n \in Nodes(G["g"])
    /\ References(node, G["g"]) = {}
    /\ pc' = "segment"
    /\ target' = n
    /\ cache' = {}
    /\ emitted' = {}
    /\ segments' = [ch \in SUBSET Nodes(G["g"]) |->
                      find_dependent_subgraphs_of_node(node, G["g"], n, ch)]
    /\ UNCHANGED <<node, G, artifacts, cache_catalog, query>>

\* one round of the controller: segment, evaluate every emitted subgraph,
\* put the sinks of every emitted subgraph into the cache; the round that
\* emits the single subgraph holding the target is the last
Round ==
    /\ pc = "segment"
    /\ IF segments[cache].err # "none"
       THEN /\ pc' = "failed"
            /\ UNCHANGED <<cache, emitted>>
       ELSE LET dep_graphs == segments[cache].dep_graphs
            IN  /\ emitted' = dep_graphs
                /\ IF Cardinality(dep_graphs) = 1 /\ \A sg \in dep_graphs : target \in sg.nodes
                   THEN pc' = "done" /\ UNCHANGED cache
                   ELSE /\ pc' = "segment"
                        /\ cache' = cache \cup UNION {get_sink_nodes(sg) : sg \in dep_graphs}
    /\ UNCHANGED <<node, G, target, segments, artifacts, cache_catalog, query>>

NextSeg ==
    \/ \E i \in Interfaces, d \in DataSourceNames :
          pc = "build" /\ Room(MaxNodes) /\ AddDataSource("g", i, d)
    \/ \E nm \in Names, dep \in Live(G) :
          pc = "build" /\ Room(MaxNodes) /\ AddVariable("g", nm, dep)
    \/ \E dep \in Live(G) : pc = "build" /\ Room(MaxNodes) /\ AddReturn("g", dep)
    \/ \E dep \in Live(G) : pc = "build" /\ Room(MaxNodes) /\ AddFilter("g", dep)
    \/ \E u, v \in Live(G) : pc = "build" /\ AddEdge("g", u, v)
    \/ \E n \in Live(G) : StartSegment(n)
    \/ Round

\* a graph built by adds and extra edges, then materialized round by round;
\* the controller keeps running rounds
SpecSeg == Init /\ [][NextSeg]_vars /\ WF_vars(Round)

\* the caches handed to one call of the segmenter on a graph of nodes ns
Caches(ns) == {ch \in SUBSET ns : Cardinality(ch) <= MaxCached}

\* the controller materializes a node n of g that nothing depends on: the
\* answer of g.find_dependent_subgraphs_of_node(n, ch) for every cache ch of
\* at most MaxCached nodes
SegmentSink(n) ==
    /\ pc = "build"
    /\ n \in Nodes(G["g"])
    /\ descendants(G["g"], n) = {}
    /\ pc' = "segment"
    /\ target' = n
    /\ cache' = {}
    /\ emitted' = {}
    /\ segments' = [ch \in Caches(Nodes(G["g"])) |->
                      find_dependent_subgraphs_of_node(node, G["g"], n, ch)]
    /\ UNCHANGED <<node, G, artifacts, cache_catalog, query>>

NextJoin ==
    \/ \E i \in Interfaces, d \in DataSourceNames :
          pc = "build" /\ Room(MaxNodes) /\ AddDataSource("g", i, d)
    \/ \E nm \in Names, dep \in Live(G) :
          pc = "build" /\ Room(MaxNodes) /\ AddVariable("g", nm, dep)
    \/ \E dep \in Live(G) : pc = "build" /\ Room(MaxNodes + 1) /\ AddFilter("g", dep)
    \/ \E u, v \in Live(G) : pc = "build" /\ AddEdge("g", u, v)
    \/ \E n \in Live(G) : SegmentSink(n)

\* sources, variables and transforms with several inputs (joins), one more
\* transform than SpecSeg builds, then one call of the segmenter
SpecJoin == Init /\ [][NextJoin]_vars

\* the controller turns to the node n of g, the first or, once the present
\* target has its artifact, the next: the cache it hands to the segmenter is
\* the InMemoryCache, whose keys are the ids in `artifacts`; the graph no
\* longer changes
Materialize(n) ==
    /\ pc = "build" \/ (pc = "segment" /\ target \in DOMAIN artifacts)
    /\ n \in Nodes(G["g"])
    /\ n \notin DOMAIN artifacts
    /\ References(node, G["g"]) = {}
    /\ pc' = "segment"
    /\ target' = n
    /\ segments' = [ch \in SUBSET Nodes(G["g"]) |->
                      find_dependent_subgraphs_of_node(node, G["g"], n, ch)]
    /\ UNCHANGED <<node, G, cache, emitted, artifacts, cache_catalog, query>>

\* the backend calls that raise during one evaluate_graph call: none, or
\* those on one instruction (the first failure ends the call)
Failures(sg) == {{}} \cup {{n} : n \in sg.nodes}

\* cache.evaluate_graph(sg, instructions_to_evaluate) for a subgraph sg the
\* segmenter emits under the present cache; what the call stored before an
\* exception stays stored
EvaluateGraph(sg, instructions_to_evaluate, first, fails) ==
    /\ pc = "segment"
    /\ segments[DOMAIN artifacts].err = "none"
    /\ sg \in segments[DOMAIN artifacts].dep_graphs
    /\ LET E == evaluate_graph(node, sg, EvalState(artifacts, cache_catalog, fails),
                               instructions_to_evaluate, first)
       IN  artifacts' = E.cache /\ cache_catalog' = E.cache_catalog
    /\ UNCHANGED <<node, G, pc, target, cache, emitted, segments, query>>

NextEval ==
    \/ \E i \in Interfaces, d \in DataSourceNames :
          pc = "build" /\ Room(MaxNodes) /\ AddDataSource("g", i, d)
    \/ \E nm \in Names, dep \in Live(G) :
          pc = "build" /\ Room(MaxNodes) /\ AddVariable("g", nm, dep)
    \/ \E dep \in Live(G) : pc = "build" /\ Room(MaxNodes) /\ AddReturn("g", dep)
    \/ \E dep \in Live(G) : pc = "build" /\ Room(MaxNodes) /\ AddFilter("g", dep)
    \/ \E n \in Live(G) : Materialize(n)
    \/ \E sg \in IF pc = "segment" THEN segments[DOMAIN artifacts].dep_graphs ELSE {} :
          \E first \in Firsts(sg) :
             \E instructions_to_evaluate \in {<<>>} \cup {<<n>> : n \in sg.nodes} :
                \E fails \in Failures(sg) :
                   EvaluateGraph(sg, instructions_to_evaluate, first, fails)

\* a graph built by adds, then materialized node after node through the
\* segmenter and one InMemoryCache
SpecEval == Init /\ [][NextEval]_vars

\* the data frame a caller stores: one row, none of the backend's frames
Frames == {<<0>>}

\* the InMemoryCache as it is
Self == EvalState(artifacts, cache_catalog, {})

\* eg = IRGraphEvaluable(g): the graph is handed to the cache and no longer
\* changes
MakeEvaluable(sg) ==
    /\ pc = "build"
    /\ G["g"] # EmptyGraph
    /\ sg.err = "none"
    /\ pc' = "evaluate"
    /\ emitted' = {[nodes |-> sg.nodes, edges |-> sg.edges, interface |-> sg.interface]}
    /\ UNCHANGED <<node, G, target, cache, segments, artifacts, cache_catalog, query>>

\* cache[k] = data
SetItem(k, data) ==
    /\ pc = "evaluate"
    /\ artifacts' = store_in_cache(Self, k, data).cache
    /\ cache_catalog' = store_in_cache(Self, k, data).cache_catalog
    /\ UNCHANGED <<node, G, pc, target, cache, emitted, segments, query>>

\* del cache[k]; after KeyError the mappings are as the call left them
DelItem(k) ==
    /\ pc = "evaluate"
    /\ artifacts' = delitem(Self, k).cache
    /\ cache_catalog' = delitem(Self, k).cache_catalog
    /\ UNCHANGED <<node, G, pc, target, cache, emitted, segments, query>>

\* cache.evaluate_graph(eg, instructions_to_evaluate)
EvaluateWhole(sg, instructions_to_evaluate, first, fails) ==
    /\ pc = "evaluate"
    /\ sg \in emitted
    /\ LET E == evaluate_graph(node, sg, EvalState(artifacts, cache_catalog, fails),
                               instructions_to_evaluate, first)
       IN  artifacts' = E.cache /\ cache_catalog' = E.cache_catalog
    /\ UNCHANGED <<node, G, pc, target, cache, emitted, segments, query>>

NextCache ==
    \/ \E i \in Interfaces, d \in DataSourceNames :
          pc = "build" /\ Room(MaxNodes) /\ AddDataSource("g", i, d)
    \/ \E nm \in Names, dep \in Live(G) :
          pc = "build" /\ Room(MaxNodes) /\ AddVariable("g", nm, dep)
    \/ \E dep \in Live(G) : pc = "build" /\ Room(MaxNodes) /\ AddReturn("g", dep)
    \/ \E dep \in Live(G) : pc = "build" /\ Room(MaxNodes) /\ AddFilter("g", dep)
    \/ pc = "build" /\ MakeEvaluable(IRGraphEvaluable(node, G["g"]))
    \/ \E k \in 1..MaxNodes, data \in Frames : SetItem(k, data)
    \/ \E k \in 1..MaxNodes : DelItem(k)
    \/ \E sg \in emitted : \E first \in Firsts(sg) :
          \E instructions_to_evaluate \in {<<>>} \cup {<<n>> : n \in sg.nodes} :
             \E fails \in Failures(sg) :
                EvaluateWhole(sg, instructions_to_evaluate, first, fails)

\* a graph built by adds, then one InMemoryCache under stores, deletes and
\* evaluations of the graph
SpecCache == Init /\ [][NextCache]_vars

\* one call of StixShifterInterface.query against its data sources
SpecQuery == Init /\ [][NextQuery]_vars

\* ==== properties ==========================================================
DataSourcesOf(nd, gr, i, d) ==
    {n \in Nodes(gr) : nd[n].kind = "DataSource" /\ nd[n].interface = i /\ nd[n].datasource = d}

VariablesOf(nd, gr, nm) ==
    SelectSeq(gr.nodes, LAMBDA n : nd[n].kind = "Variable" /\ nd[n].name = nm)

ReturnsOf(nd, gr) == SelectSeq(gr.nodes, LAMBDA n : nd[n].kind = "Return")

out_edges(gr, n) == {e \in gr.edges : e[1] = n}

\* C1: a graph holds at most one DataSource per (interface, datasource); an
\* add of a DataSource returns the one node of that content; after a union
\* every edge of the merged fragment that left a DataSource leaves the one
\* DataSource of that content in the receiving graph.
SingletonLaw ==
    /\ \A a \in GraphNames, i \in Interfaces, d \in DataSourceNames :
          /\ Cardinality(DataSourcesOf(node, G[a], i, d)) <= 1
          /\ LET W == add_node(Create(DataSource(i, d)), a, Fresh, 0, TRUE)
             IN  /\ W.err = "none"
                 /\ DataSourcesOf(W.node, W.G[a], i, d) = {W.ret}
    /\ \A a, b \in GraphNames : a # b =>
          \A refs \in get_references(node, G[b]) :
             LET r == update(World(node, G), a, b, refs)
             IN  /\ r.W.err = "none"
                 /\ \A e \in G[b].edges : node[e[1]].kind = "DataSource" =>
                       \E s \in Nodes(r.W.G[a]) :
                          /\ DataSourcesOf(r.W.node, r.W.G[a],
                                           node[e[1]].interface, node[e[1]].datasource) = {s}
                          /\ <<s, e[2]>> \in r.W.G[a].edges

\* three unions, each of a fragment that wires one node below its own copy of
\* the data source, have left g's single copy with three outgoing edges
SingletonCollapseReached ==
    \E s \in Nodes(G["g"]), t \in Nodes(G["h"]) \ Nodes(G["g"]) :
       /\ node[s].kind = "DataSource"
       /\ has_same_content_as(node[s], node[t])
       /\ Cardinality(out_edges(G["g"], s)) = 3
       /\ \E e \in G["h"].edges : e[1] = t /\ <<s, e[2]>> \in G["g"].edges

\* C2: in a graph built by adds, the k variables of one name have the
\* versions 0..k-1 in the order of their adds, get_variable returns the one
\* of version k-1, and an add gives its variable version k and changes no
\* node the graph already holds.
VariableSSALaw ==
    \A a \in GraphNames, nm \in Names :
       LET vs == VariablesOf(node, G[a], nm)
           k == Len(vs)
       IN  /\ \A i \in 1..k : node[vs[i]].version = i - 1
           /\ k > 0 => /\ get_variable_err(node, G[a], nm) = "none"
                       /\ get_variable(node, G[a], nm) = vs[k]
           /\ \A dep \in Nodes(G[a]) :
                 /\ LET W == add_node(Create(Variable(nm)), a, Fresh, dep, TRUE)
                    IN  /\ W.err = "none"
                        /\ W.ret = Fresh
                        /\ W.node[Fresh].version = k
                        /\ \A n \in Nodes(G[a]) : W.node[n] = node[n]
                 /\ \A ins \in {Return, Filter, Reference(nm), DataSource("A", "t1")} :
                       LET W == add_node(Create(ins), a, Fresh, dep, TRUE)
                       IN  \A n \in Nodes(G[a]) : W.node[n] = node[n]

\* three adds of a variable x to g, among adds of other nodes
ThreeVersionsReached ==
    /\ Len(VariablesOf(node, G["g"], "x")) = 3
    /\ \E n \in Nodes(G["g"]) : node[n].kind \notin {"Variable", "Free"}

\* C3: for every variable name that occurs k times in g the versions are
\* exactly 0..k-1.
VariableVersionsContiguous ==
    \A nm \in Names :
       LET vs == VariablesOf(node, G["g"], nm)
       IN  {node[vs[i]].version : i \in DOMAIN vs} = 0..(Len(vs) - 1)

\* C4: the sequences of the r Returns of g are exactly 0..r-1, a Return that
\* entered g later having the larger sequence.
ReturnSequencesContiguous ==
    LET rs == ReturnsOf(node, G["g"])
    IN  \A i \in DOMAIN rs : node[rs[i]].sequence = i - 1

\* C5: an add of Reference x with dereferencing returns the Variable x of
\* the highest version and changes neither nodes nor edges when the graph
\* holds a Variable x; otherwise the graph then holds exactly one Reference
\* x, which the add returns, and a second add returns it again.
DerefLaw ==
    \A a \in GraphNames, nm \in Names :
       LET W == add_node(Create(Reference(nm)), a, Fresh, 0, TRUE)
           again == add_node(CreateIn(W, Reference(nm)), a, FreshIn(W.node), 0, TRUE)
           vs == VariablesOf(node, G[a], nm)
       IN  /\ W.err = "none"
           /\ IF vs # <<>>
              THEN /\ W.ret \in Range(vs)
                   /\ \A i \in DOMAIN vs : node[vs[i]].version <= node[W.ret].version
                   /\ W.G = G
              ELSE /\ {n \in Nodes(W.G[a]) : W.node[n] = Reference(nm)} = {W.ret}
                   /\ Nodes(W.G[a]) = Nodes(G[a]) \cup {W.ret}
                   /\ W.G[a].edges = G[a].edges
                   /\ again.err = "none"
                   /\ again.ret = W.ret
                   /\ again.G = W.G

\* g holds a shadowed and a live Variable x, and the add of Reference x
\* returns the live one; h holds a Reference x that an add inserted
DerefReached ==
    /\ Len(VariablesOf(node, G["g"], "x")) = 2
    /\ node[add_node(Create(Reference("x")), "g", Fresh, 0, TRUE).ret].version = 1
    /\ \E n \in Nodes(G["h"]) : node[n] = Reference("x")
    /\ VariablesOf(node, G["h"], "x") = <<>>

\* C6: union(a, b) maps every Reference of b that a does not hold to a's
\* live Variable of that name as it was before the merge, when there is
\* one, and leaves it out of a; otherwise the Reference stays a Reference;
\* a Reference a holds stays in a.
UnionDerefsAgainstReceiver ==
    \A a, b \in GraphNames : a # b =>
       \A refs \in get_references(node, G[b]) :
          LET r == update(World(node, G), a, b, refs)
          IN  /\ \A ref \in References(node, G[b]) \ Nodes(G[a]) :
                    IF VariablesOf(node, G[a], node[ref].name) # <<>>
                    THEN /\ r.o2n[ref] = get_variable(node, G[a], node[ref].name)
                         /\ ref \notin Nodes(r.W.G[a])
                    ELSE /\ r.o2n[ref] \in Nodes(r.W.G[a])
                         /\ r.W.node[r.o2n[ref]] = node[ref]
              /\ References(node, G[a]) \subseteq References(r.W.node, r.W.G[a])

\* C7: no graph holds a Reference and a Variable of the same name.
NoReferenceBesideVariable ==
    \A a \in GraphNames : \A r, v \in Nodes(G[a]) :
       ~(node[r].kind = "Reference" /\ node[v].kind = "Variable" /\ node[r].name = node[v].name)

\* C7 (amended): a Reference shares a graph with a Variable of its name only
\* if it entered the graph before every Variable of that name; no add and no
\* union inserts a Reference into a graph that holds a Variable of its name.
ReferencePrecedesVariables ==
    /\ \A a \in GraphNames : \A i, j \in DOMAIN G[a].nodes :
          (/\ node[G[a].nodes[i]].kind = "Reference"
           /\ node[G[a].nodes[j]].kind = "Variable"
           /\ node[G[a].nodes[i]].name = node[G[a].nodes[j]].name) => i < j
    /\ \A a \in GraphNames, nm \in Names :
          LET W == add_node(Create(Reference(nm)), a, Fresh, 0, TRUE)
          IN  VariablesOf(node, G[a], nm) # <<>> =>
                 References(W.node, W.G[a]) = References(node, G[a])
    /\ \A a, b \in GraphNames : a # b =>
          \A refs \in get_references(node, G[b]) :
             LET r == update(World(node, G), a, b, refs)
             IN  \A n \in References(r.W.node, r.W.G[a]) \ Nodes(G[a]) :
                    VariablesOf(node, G[a], node[n].name) = <<>>

\* g holds a Reference x beside a Variable x that a union brought in later
ReferenceBesideVariableReached ==
    /\ \E i, j \in DOMAIN G["g"].nodes :
          /\ i < j
          /\ node[G["g"].nodes[i]] = Reference("x")
          /\ node[G["g"].nodes[j]].kind = "Variable"
          /\ G["g"].nodes[j] \in Nodes(G["h"])
    /\ \E n \in Nodes(G["h"]) \ Nodes(G["g"]) : node[n].kind = "Reference"

\* content of a node: kind and attributes, version and sequence left out
Content(x) == [kind |-> x.kind, name |-> x.name, interface |-> x.interface,
               datasource |-> x.datasource]

UnionContent(a, b, refs) ==
    LET r == update(World(node, G), a, b, refs)
    IN  {Content(r.W.node[n]) : n \in Nodes(r.W.G[a])}

Disjoint == Nodes(G["g"]) \cap Nodes(G["h"]) = {}

\* no Reference of one graph has the name of a Variable of the other
NoCapture ==
    \A a, b \in GraphNames : a # b =>
       \A r \in References(node, G[a]) : VariablesOf(node, G[b], node[r].name) = <<>>

\* C8: for graphs with disjoint node ids, union(g, h) and union(h, g) have
\* the same node set by content.
UnionCommutesOnContent ==
    Disjoint =>
       \A rh \in get_references(node, G["h"]), rg \in get_references(node, G["g"]) :
          UnionContent("g", "h", rh) = UnionContent("h", "g", rg)

\* C8 (amended): for graphs with disjoint node ids in which no Reference of
\* one has the name of a Variable of the other, union(g, h) and union(h, g)
\* have the same node set by content.
UnionCommutesOnContentWithoutCapture ==
    (Disjoint /\ NoCapture) =>
       \A rh \in get_references(node, G["h"]), rg \in get_references(node, G["g"]) :
          UnionContent("g", "h", rh) = UnionContent("h", "g", rg)

\* disjoint graphs, each with nodes the other lacks by content, one holding a
\* Reference x beside its own Variable x
UnionCommutesReached ==
    /\ Disjoint /\ NoCapture
    /\ References(node, G["h"]) # {}
    /\ VariablesOf(node, G["h"], "x") # <<>>
    /\ \E n \in Nodes(G["g"]) : node[n].kind = "DataSource"
    /\ UnionContent("g", "h", CHOOSE rh \in get_references(node, G["h"]) : TRUE)
          # {Content(node[n]) : n \in Nodes(G["g"])}

\* C9: deserializing to_dict(g) gives the nodes of g under their ids with
\* their attributes, in g's order, and the edges of g.
SerializationRoundTrip ==
    \A a \in GraphNames :
       LET r == _from_dict(to_dict(node, G[a]))
       IN  /\ r.err = "none"
           /\ r.G["g"].nodes = G[a].nodes
           /\ \A n \in Nodes(G[a]) : r.node[n] = node[n]
           /\ r.G["g"].edges = G[a].edges

\* g holds an unresolved Reference x, a shadowed and a live Variable x, and edges
RoundTripReached ==
    /\ References(node, G["g"]) # {}
    /\ Len(VariablesOf(node, G["g"], "x")) = 2
    /\ G["g"].edges # {}
    /\ _from_dict(to_dict(node, G["g"])).G["g"] = G["g"]

\* C10: on an acyclic graph without References, the rounds of the controller
\* (segment, evaluate, cache the sinks), started from an empty cache, lead to
\* a round that emits exactly one subgraph and that subgraph holds the target.
SegmentationReachesTarget == (pc = "segment") ~> (pc = "done")

\* C11: for every cache, no edge of an emitted subgraph enters a node whose
\* id is in the cache: cached nodes are roots of the emitted subgraphs.
CachedNodesAreRoots ==
    pc # "build" =>
       \A ch \in DOMAIN segments : \A sg \in segments[ch].dep_graphs :
          \A e \in sg.edges : e[2] \notin ch

\* a cached node that has a predecessor in g is emitted with a successor and
\* without that predecessor
CachedRootReached ==
    /\ pc # "build"
    /\ \E ch \in DOMAIN segments : \E sg \in segments[ch].dep_graphs :
          \E m \in sg.nodes \cap ch :
             /\ in_degree(G["g"], m) > 0
             /\ \E e \in sg.edges : e[1] = m

\* C12: on a graph without References, for every cache, the segmenter
\* raises nothing, and every emitted subgraph has the interface CACHE when it
\* holds no SourceInstruction and otherwise the interface of every
\* SourceInstruction it holds.
EmittedHasOneInterface ==
    pc # "build" =>
       \A ch \in DOMAIN segments :
          /\ segments[ch].err = "none"
          /\ \A sg \in segments[ch].dep_graphs :
                LET sources == {s \in sg.nodes : node[s].kind \in SourceInstruction}
                IN  IF sources = {}
                    THEN sg.interface = CACHE_INTERFACE_IDENTIFIER
                    ELSE \A s \in sources : node[s].interface = sg.interface

\* a graph with sources of two interfaces; one call emits a subgraph of a
\* source's interface and a subgraph without source
TwoInterfacesSegmented ==
    /\ pc # "build"
    /\ \E s, t \in Nodes(G["g"]) : /\ node[s].kind \in SourceInstruction
                                   /\ node[t].kind \in SourceInstruction
                                   /\ node[s].interface # node[t].interface
    /\ \E ch \in DOMAIN segments : \E sg, tg \in segments[ch].dep_graphs :
          /\ sg.interface = CACHE_INTERFACE_IDENTIFIER
          /\ tg.interface \in Interfaces
          /\ \E s \in tg.nodes : node[s].kind \in SourceInstruction

\* the second of two evaluate_graph calls with the same arguments, E1 the
\* state the first call ended in
second_call_repeats(E1, sg, instructions_to_evaluate, first) ==
    E1.err = "none" =>
       LET E2 == evaluate_graph(node, sg, EvalState(E1.cache, E1.cache_catalog, {}),
                                instructions_to_evaluate, first)
       IN  /\ E2.err = "none"
           /\ E2.mapping = E1.mapping
           /\ E2.calls = 0

\* C13: evaluate_graph called twice on the same evaluable graph, targets and
\* InMemoryCache returns the same artifacts, and the second call makes no
\* evaluate_source_instruction and no evaluate_transforming_instruction call.
SecondEvaluationFromCache ==
    pc = "segment" /\ segments[DOMAIN artifacts].err = "none" =>
       \A sg \in segments[DOMAIN artifacts].dep_graphs :
          \A instructions_to_evaluate \in {<<>>} \cup {<<n>> : n \in sg.nodes} :
             \A first \in Firsts(sg) :
                second_call_repeats(
                    evaluate_graph(node, sg, EvalState(artifacts, cache_catalog, {}),
                                   instructions_to_evaluate, first),
                    sg, instructions_to_evaluate, first)

\* the evaluation of node n, whose id is in the cache, E the state the call
\* ended in
served_from_cache(E, n) ==
    /\ E.err = "none"
    /\ E.mapping[n] = artifacts[n]
    /\ E.calls = 0

\* C14: the evaluation of a node whose id is in the artifact cache returns
\* the cached artifact without a backend call and without a visit to its
\* predecessors, so an emitted subgraph whose roots are cached nodes with
\* their in-edges pruned evaluates from the cache.
CachedNodeServedFromCache ==
    pc = "segment" /\ segments[DOMAIN artifacts].err = "none" =>
       \A sg \in segments[DOMAIN artifacts].dep_graphs :
          \A n \in sg.nodes \cap DOMAIN artifacts :
             \A first \in Firsts(sg) :
                served_from_cache(
                    evaluate_graph(node, sg, EvalState(artifacts, cache_catalog, {}),
                                   <<n>>, first), n)

\* C15: union(a, b), when a holds a Variable x and b a Reference x that a
\* does not hold, leaves the Reference out of a, turns every edge from the
\* Reference to a node m of b into an edge from a's pre-merge live Variable x
\* to m, and gives m no predecessor beyond those it had in a and the images
\* of those it has in b.
UnionRewiresReferenceEdges ==
    \A a, b \in GraphNames : a # b =>
       \A refs \in get_references(node, G[b]) :
          LET r == update(World(node, G), a, b, refs)
              live(ref) == get_variable(node, G[a], node[ref].name)
              image(p) == IF /\ p \in References(node, G[b]) \ Nodes(G[a])
                             /\ VariablesOf(node, G[a], node[p].name) # <<>>
                          THEN live(p) ELSE r.o2n[p]
          IN  r.W.err = "none" =>
                 \A ref \in References(node, G[b]) \ Nodes(G[a]) :
                    VariablesOf(node, G[a], node[ref].name) # <<>> =>
                       /\ ref \notin Nodes(r.W.G[a])
                       /\ \A m \in Nodes(G[b]) : <<ref, m>> \in G[b].edges =>
                             /\ <<live(ref), r.o2n[m]>> \in r.W.G[a].edges
                             /\ predecessors(r.W.G[a], r.o2n[m]) \subseteq
                                   predecessors(G[a], r.o2n[m])
                                      \cup {image(p) : p \in predecessors(G[b], m)}

\* the nodes in two buckets of the base graph W are in no subgraph of
\* dep_graphs, and no two subgraphs of dep_graphs share a node
shared_withheld(W, ch, dep_graphs) ==
    LET a2ns == Buckets(W.node, W.G["g"], ch)
    IN  /\ \A m \in Nodes(W.G["g"]) :
              (\E ix, iy \in DOMAIN a2ns : ix # iy /\ m \in a2ns[ix] /\ m \in a2ns[iy])
                 => \A sg \in dep_graphs : m \notin sg.nodes
        /\ \A s1, s2 \in dep_graphs : s1 # s2 => s1.nodes \cap s2.nodes = {}

\* g is two sources a and b of different interfaces, each feeding one
\* variable, and the two variables feeding the join j
JoinOfTwoInterfaces(a, b, va, vb, j) ==
    /\ Nodes(G["g"]) = {a, b, va, vb, j}
    /\ node[a].kind \in SourceInstruction /\ node[b].kind \in SourceInstruction
    /\ node[a].interface # node[b].interface
    /\ node[va].kind = "Variable" /\ node[vb].kind = "Variable"
    /\ G["g"].edges = {<<a, va>>, <<b, vb>>, <<va, j>>, <<vb, j>>}

\* C16: in one call of the segmenter a node in the node sets of two or more
\* buckets is in no emitted subgraph, and the emitted subgraphs are pairwise
\* node-disjoint; on the join of two interfaces with an empty cache exactly
\* two subgraphs are emitted, each one source with its variable.
SharedNodesEmittedNowhere ==
    pc = "segment" =>
       /\ \A ch \in DOMAIN segments : segments[ch].err = "none" =>
             shared_withheld(
                 find_cached_dependent_subgraph_of_node(node, G["g"], target, ch),
                 ch, segments[ch].dep_graphs)
       /\ \A a, b, va, vb \in Nodes(G["g"]) :
             JoinOfTwoInterfaces(a, b, va, vb, target) =>
                /\ segments[{}].err = "none"
                /\ {[nodes |-> sg.nodes, edges |-> sg.edges, interface |-> sg.interface] :
                       sg \in segments[{}].dep_graphs}
                     = {[nodes |-> {a, va}, edges |-> {<<a, va>>},
                         interface |-> node[a].interface],
                        [nodes |-> {b, vb}, edges |-> {<<b, vb>>},
                         interface |-> node[b].interface]}

\* the segmenter has been called on the join of two interfaces: the join is
\* in no emitted subgraph
JoinSegmented ==
    /\ pc = "segment"
    /\ \E a, b, va, vb \in Nodes(G["g"]) : JoinOfTwoInterfaces(a, b, va, vb, target)
    /\ Cardinality(segments[{}].dep_graphs) = 2
    /\ \A sg \in segments[{}].dep_graphs : target \notin sg.nodes

\* m has a path to n in gr on which no node after the first is in ch
uncached_path(gr, m, n, ch) ==
    m = n \/ n \in Reachable({e \in gr.edges : e[2] \notin ch}, {m}, {})

\* g is one chain from a source to the Return n
ChainTo(n) ==
    /\ node[n].kind = "Return"
    /\ Nodes(G["g"]) = ancestors(G["g"], n) \cup {n}
    /\ \A m \in Nodes(G["g"]) :
          /\ Cardinality(predecessors(G["g"], m)) <= 1
          /\ Cardinality({e \in G["g"].edges : e[1] = m}) <= 1

\* C17: every node of every emitted subgraph has a path to the target in the
\* original graph on which no node after the first is cached, so a node
\* whose every path to the target passes through a cached node is emitted
\* nowhere; on a chain from a source to a Return with one transform c
\* cached, one subgraph is emitted, its nodes c and what follows c.
EmittedNodesReachTargetUncached ==
    pc = "segment" =>
       /\ \A ch \in DOMAIN segments : \A sg \in segments[ch].dep_graphs :
             \A m \in sg.nodes :
                m \in Nodes(G["g"]) /\ uncached_path(G["g"], m, target, ch)
       /\ \A c \in Nodes(G["g"]) \ {target} :
             (ChainTo(target) /\ node[c].kind \in TransformingInstruction) =>
                /\ segments[{c}].err = "none"
                /\ {sg.nodes : sg \in segments[{c}].dep_graphs}
                      = {{c} \cup descendants(G["g"], c)}

\* the segmenter has been called on a chain source -> c -> d -> Return with
\* c cached: the source is emitted nowhere
CachedChainSegmented ==
    /\ pc = "segment"
    /\ ChainTo(target)
    /\ \E s, c, d \in Nodes(G["g"]) :
          /\ G["g"].edges = {<<s, c>>, <<c, d>>, <<d, target>>}
          /\ node[s].kind \in SourceInstruction
          /\ {sg.nodes : sg \in segments[{c}].dep_graphs} = {{c, d, target}}

\* no edge of the base graph W goes between two different subgraphs of
\* dep_graphs
no_edge_between(W, dep_graphs) ==
    \A e \in W.G["g"].edges : \A s1, s2 \in dep_graphs :
       (e[1] \in s1.nodes /\ e[2] \in s2.nodes) => s1 = s2

\* C20: for any target and cache, no edge of the cache-pruned dependent
\* graph of the target goes from a node of one emitted subgraph to a node of
\* a different emitted subgraph.
NoEdgeBetweenEmitted ==
    pc = "segment" =>
       \A ch \in DOMAIN segments : segments[ch].err = "none" =>
          no_edge_between(
              find_cached_dependent_subgraph_of_node(node, G["g"], target, ch),
              segments[ch].dep_graphs)

\* C19: every graph reachable through adds without predecessor, adds with
\* predecessor and unions is acyclic.
GraphsAcyclic ==
    \A a \in GraphNames : \A n \in Nodes(G[a]) : n \notin Reachable(G[a].edges, {n}, {})

\* W is the world after gr.deepcopy() in store nd: the copy is isomorphic to
\* gr, shares no node with it and left it as it was
is_deep_copy(W, nd, gr) ==
    /\ W.err = "none"
    /\ W.G["h"] = gr
    /\ \A n \in DOMAIN nd : W.node[n] = nd[n]
    /\ Nodes(W.G["g"]) \cap Nodes(gr) = {}
    /\ Cardinality(Nodes(W.G["g"])) = Cardinality(Nodes(gr))
    /\ Cardinality(W.G["g"].edges) = Cardinality(gr.edges)
    /\ \E f \in [Nodes(gr) -> Nodes(W.G["g"])] :
          /\ \A m, n \in Nodes(gr) : m # n => f[m] # f[n]
          /\ \A n \in Nodes(gr) : W.node[f[n]] = nd[n]
          /\ \A m, n \in Nodes(gr) :
                <<m, n>> \in gr.edges <=> <<f[m], f[n]>> \in W.G["g"].edges

\* C18: deepcopy() of a graph reachable by adds and unions returns a graph
\* with a bijection from the graph's nodes that preserves kind, attributes
\* and edges, shares no node with the graph and leaves the graph unchanged;
\* the copy has as many nodes and edges as the graph.
DeepcopyIsIsomorphic ==
    \A a \in GraphNames : is_deep_copy(deepcopy(node, G[a]), node, G[a])

\* C29: union(a, b) when every node of b is already a node of a (a repeated
\* union, or the merge of a copy) leaves a's nodes, edges, variable versions
\* and return sequences unchanged.
UnionOfHeldNodesChangesNothing ==
    \A a, b \in GraphNames : (a # b /\ G[b] # EmptyGraph /\ Nodes(G[b]) \subseteq Nodes(G[a])) =>
       \A refs \in get_references(node, G[b]) :
          LET r == update(World(node, G), a, b, refs)
          IN  /\ r.W.err = "none"
              /\ r.W.G[a] = G[a]
              /\ \A n \in Nodes(G[a]) : r.W.node[n] = node[n]

\* C23: add_node(n, dep) of a TransformingInstruction that is not in the
\* graph, with a predecessor dep that is not in the graph, raises
\* InstructionNotFound and leaves the graphs and the node's version and
\* sequence unchanged.
AddWithForeignPredecessorFails ==
    \A a \in GraphNames : \A dep \in Live(G) \ Nodes(G[a]) :
       \A ins \in {Variable(nm) : nm \in Names} \cup {Return, Filter} :
          LET W == add_node(Create(ins), a, Fresh, dep, TRUE)
          IN  /\ W.err = "InstructionNotFound"
              /\ W.G = G
              /\ W.node[Fresh] = ins
              /\ \A n \in Live(G) : W.node[n] = node[n]

\* g holds a Variable x and a Return, h holds a node g does not hold, and
\* the add of a Variable x to g behind that node raises
ForeignPredecessorReached ==
    /\ VariablesOf(node, G["g"], "x") # <<>>
    /\ ReturnsOf(node, G["g"]) # <<>>
    /\ \E dep \in Nodes(G["h"]) \ Nodes(G["g"]) :
          add_node(Create(Variable("x")), "g", Fresh, dep, TRUE).err = "InstructionNotFound"

\* C24: add_reference(x, deref=False) on a graph that holds a Variable x
\* does not dereference: it returns a Reference x of the graph, inserted
\* by the call or present before it with in-degree 0, never the Variable.
AddReferenceWithoutDeref ==
    \A a \in GraphNames, nm \in Names, typechecked \in BOOLEAN :
       VariablesOf(node, G[a], nm) # <<>> =>
          LET W == add_reference(Create(Reference(nm)), a, Fresh, FALSE, typechecked)
          IN  /\ W.err = "none"
              /\ W.ret \in Nodes(W.G[a])
              /\ W.node[W.ret] = Reference(nm)
              /\ in_degree(W.G[a], W.ret) = 0

\* C25: add_node of a TransformingInstruction that is not in the graph,
\* without a predecessor, succeeds, adds exactly that node and no edge, and
\* assigns no version or sequence.
AddTransformWithoutPredecessor ==
    \A a \in GraphNames :
       \A ins \in {Variable(nm) : nm \in Names} \cup {Return, Filter} :
          LET W == add_node(Create(ins), a, Fresh, 0, TRUE)
          IN  /\ W.err = "none"
              /\ Nodes(W.G[a]) = Nodes(G[a]) \cup {Fresh}
              /\ W.G[a].edges = G[a].edges
              /\ W.node[Fresh] = ins

\* E is the state an evaluate_graph call ended in when the backend raises on
\* the instructions of `fails`, E0 the state it ends in when the backend
\* raises nowhere: the call raises DataSourceError or does what the
\* unfailing call does, and after DataSourceError every entry the cache and
\* the catalog held before the call is still there, unchanged
failure_keeps_entries(E, E0) ==
    /\ E.err = "DataSourceError" \/ (E.err = E0.err /\ E.cache = E0.cache /\ E.mapping = E0.mapping)
    /\ E.err = "DataSourceError" =>
          /\ \A k \in DOMAIN artifacts : k \in DOMAIN E.cache /\ E.cache[k] = artifacts[k]
          /\ \A k \in DOMAIN cache_catalog :
                k \in DOMAIN E.cache_catalog /\ E.cache_catalog[k] = cache_catalog[k]

\* C21: a backend call that raises during evaluate_graph ends the call with
\* that error, and every entry the cache and the catalog held before the
\* call is still present with the same artifact.
BackendFailureKeepsCache ==
    pc = "segment" /\ segments[DOMAIN artifacts].err = "none" =>
       \A sg \in segments[DOMAIN artifacts].dep_graphs :
          \A first \in Firsts(sg) :
             \A instructions_to_evaluate \in {<<>>} \cup {<<n>> : n \in sg.nodes},
                fails \in Failures(sg) :
                failure_keeps_entries(
                    evaluate_graph(node, sg, EvalState(artifacts, cache_catalog, fails),
                                   instructions_to_evaluate, first),
                    evaluate_graph(node, sg, EvalState(artifacts, cache_catalog, {}),
                                   instructions_to_evaluate, first))

\* E is the state of a call that stored a new entry and then ended with the
\* backend's error
failed_after_store(E) ==
    E.err = "DataSourceError" /\ DOMAIN E.cache # DOMAIN artifacts

\* the cache holds artifacts, and an evaluate_graph call stores a Variable
\* and then fails in the backend
FailureAfterStoreReached ==
    /\ pc = "segment" /\ artifacts # <<>> /\ segments[DOMAIN artifacts].err = "none"
    /\ \E sg \in segments[DOMAIN artifacts].dep_graphs :
          \E first \in Firsts(sg), fails \in Failures(sg) :
             failed_after_store(
                 evaluate_graph(node, sg, EvalState(artifacts, cache_catalog, fails),
                                <<>>, first))

\* E is the cache after an evaluate_graph call: what the call returned for
\* an instruction is what __getitem__ returns for it
returned_is_stored(E) ==
    E.err = "none" =>
       \A n \in DOMAIN E.mapping : getitem(E, n) = [err |-> "none", df |-> E.mapping[n]]

\* C26: after any sequence of __setitem__, __delitem__ and evaluate_graph
\* calls the cache and the catalog have the same keys and the catalog maps
\* every key to itself, so __getitem__(k) returns the artifact last stored
\* under k; __delitem__ of an absent key fails and changes neither mapping.
CacheAndCatalogCoincide ==
    /\ DOMAIN artifacts = DOMAIN cache_catalog
    /\ \A k \in DOMAIN cache_catalog : cache_catalog[k] = k
    /\ \A k \in DOMAIN artifacts : getitem(Self, k) = [err |-> "none", df |-> artifacts[k]]
    /\ \A k \in 1..MaxNodes, data \in Frames :
          getitem(store_in_cache(Self, k, data), k) = [err |-> "none", df |-> data]
    /\ \A k \in (1..MaxNodes) \ DOMAIN artifacts :
          /\ delitem(Self, k).err = "KeyError"
          /\ delitem(Self, k).cache = artifacts
          /\ delitem(Self, k).cache_catalog = cache_catalog
    /\ \A sg \in emitted : \A first \in Firsts(sg) :
          \A instructions_to_evaluate \in {<<>>} \cup {<<n>> : n \in sg.nodes} :
             returned_is_stored(
                 evaluate_graph(node, sg, Self, instructions_to_evaluate, first))

\* the cache holds a frame a caller stored and a frame an evaluation
\* stored, and lacks a key
StoredAndEvaluatedReached ==
    /\ pc = "evaluate"
    /\ \E k \in DOMAIN artifacts : artifacts[k] \in Frames
    /\ \E k \in DOMAIN artifacts : artifacts[k] \notin Frames
    /\ \E k \in 1..MaxNodes : k \notin DOMAIN artifacts

\* every subgraph of dep_graphs holds, with a node, the predecessors the
\* node has in the base graph W
closed_under_predecessors(W, dep_graphs) ==
    \A sg \in dep_graphs : \A m \in sg.nodes :
       predecessors(W.G["g"], m) \subseteq sg.nodes

\* C30: for any target and cache, every emitted subgraph holds, with each
\* of its nodes, all predecessors of the node in the cache-pruned dependent
\* graph of the target.
EmittedClosedUnderPredecessors ==
    pc = "segment" =>
       \A ch \in DOMAIN segments : segments[ch].err = "none" =>
          closed_under_predecessors(
              find_cached_dependent_subgraph_of_node(node, G["g"], target, ch),
              segments[ch].dep_graphs)

\* ---- claims on StixShifterInterface.query --------------------------------
RECURSIVE in_request_order(_)
in_request_order(batches) ==
    IF batches = <<>> THEN <<>>
    ELSE Head(batches) \o in_request_order(Tail(batches))

\* the batches the current search has received: the last ones of the profile
batches_of_search(Q) ==
    LET n == Len(Q.requested) - (IF Q.result_batch = "failure" THEN 1 ELSE 0)
        m == Len(Q.received)
    IN  [k \in 1..n |-> Q.received[m - n + k]]

\* C27: A search requests its batches at the offsets 0, B, 2B, ... in this
\* order; every batch before the last one it received is full, and once a
\* batch is short or empty the retrieval loop is left; the collected results
\* are the received batches concatenated in request order.
BatchesRetrievedInOrder ==
    LET received == batches_of_search(query)
        n == Len(received)
    IN  /\ \A k \in 1..Len(query.requested) :
              query.requested[k] = (k - 1) * RETRIEVAL_BATCH_SIZE
        /\ Len(query.requested) <= Len(query.received) + 1
        /\ \A k \in 1..(n - 1) : Len(received[k]) = RETRIEVAL_BATCH_SIZE
        /\ (n > 0 /\ Len(received[n]) < RETRIEVAL_BATCH_SIZE) => query.pc # "results"
        /\ (query.pc = "results" /\ n > 0) =>
              query.result_retrieval_offset = n * RETRIEVAL_BATCH_SIZE
        /\ query.connector_results = in_request_order(query.received)

\* a search that took three requests, the last one answered by an empty batch,
\* after an earlier search of the same profile
ThreeBatchesRetrieved ==
    /\ query.pc = "search"
    /\ query.requested = <<0, RETRIEVAL_BATCH_SIZE, 2 * RETRIEVAL_BATCH_SIZE>>
    /\ Len(query.received) > 3
    /\ query.received[Len(query.received)] = <<>>
    /\ query.connector_results # <<>>

\* C28: Once a translation answer holds an error, or a transmission.query, a
\* transmission.status (at any poll) or a transmission.results answer is
\* unsuccessful, query has raised DataSourceError: nothing is returned and the
\* ingest file of the profile at hand is not written.
UnsuccessfulAnswerRaises ==
    (\/ query.dsl = "error"
     \/ query.search_meta_result = "failure"
     \/ ~query.status.success
     \/ query.result_batch = "failure")
    => /\ query.pc = "raised"
       /\ query.err = "DataSourceError"
       /\ query.ret = "none"
       /\ query.i \notin query.files

\* C22: When query has returned or raised, its ingest directory is released.
IngestDirReleasedOnExit ==
    query.pc \in {"returned", "raised"} => query.ingestdir # "exists"

====
